---- MODULE Spec2Model ----
(***************************************************************************)
(* LocalModuleManager of paddlehub/module/manager.py as a state machine.   *)
(*                                                                         *)
(* Several processes, each with its own LocalModuleManager (one instance   *)
(* per home path and process), share one filesystem: the home directory,   *)
(* the temporary directories under TMP_HOME, the caller's directories and  *)
(* the per-name lock files.  Names and paths are strings: sequences of     *)
(* characters, the components of a path separated by "/".                  *)
(***************************************************************************)
EXTENDS Integers, Sequences, FiniteSets, TLC

\* ------------------------------------------------------------------ bounds
\* the number of calls made in a run
MaxCalls == 2

Procs == {"p1", "p2"}
Versions == {1, 2}
\* version=None
NoVersion == 0

\* ------------------------------------------------------------------- names
AB == <<"a", "-", "b">>
A_B == <<"a", "_", "b">>
CC == <<"c">>
Names == {AB, A_B, CC}

\* name.replace('-', '_')
get_normalized_name(name) ==
    [i \in DOMAIN name |-> IF name[i] = "-" THEN "_" ELSE name[i]]

\* os.path.join(a, b)
Join(path, component) == path \o <<"/">> \o component

\* q is the directory p or lies below it
IsPrefix(p, q) ==
    /\ Len(p) <= Len(q)
    /\ \A i \in 1..Len(p) : p[i] = q[i]
    /\ Len(q) > Len(p) => q[Len(p) + 1] = "/"

\* self.home
home == <<"h">>

\* os.path.join(self.home, self._get_normalized_name(name))
get_normalized_path(name) == Join(home, get_normalized_name(name))

\* the values TMP_HOME can have on a host: with and without a '-' in it
TmpHomes == {<<"t">>, <<"t", "-">>}

\* ------------------------------------------------------------- filesystem
\* A module's files are identified by the module they belong to.
Modules == [name : Names, version : Versions]

\* The modules offered in caller-supplied directories, archives and urls.
UserModules == [name : {AB, CC}, version : Versions]

VersionTag(v) == [i \in 1..v |-> "v"]

\* the caller's directory holding module m, and one holding no module
UserDir(m) == Join(Join(<<"u">>, m.name), VersionTag(m.version))
BadDir == Join(<<"u">>, <<"!">>)
UserDirs == {UserDir(m) : m \in UserModules} \cup {BadDir}

\* The filesystem is a function from the paths of the directories that exist
\* to the set of module files each holds.
InitialFs ==
    [d \in UserDirs |-> IF d = BadDir THEN {} ELSE {m \in UserModules : UserDir(m) = d}]

\* os.path.exists(path)
Exists(f, path) == path \in DOMAIN f

\* shutil.rmtree(path)
rmtree(f, path) == [q \in {r \in DOMAIN f : ~IsPrefix(path, r)} |-> f[q]]

\* writes `files` into directory `path`, creating it when needed
WriteDir(f, path, files) ==
    [q \in DOMAIN f \cup {path} |-> IF q = path THEN files ELSE f[q]]

\* os.listdir(self.home)
listdir(f) ==
    {SubSeq(q, Len(home) + 2, Len(q)) :
        q \in {r \in DOMAIN f : /\ IsPrefix(home, r)
                                /\ Len(r) > Len(home)
                                /\ \A i \in (Len(home) + 2)..Len(r) : r[i] # "/"}}

\* --------------------------------------------------------------- handles
\* HubModule.load(directory): the handle of the module the directory holds,
\* as a set: empty when the load raises (no directory, no module file).
Load(f, path) ==
    IF Exists(f, path) /\ Cardinality(f[path]) = 1
    THEN {[name |-> m.name, version |-> m.version, path |-> path] : m \in f[path]}
    ELSE {}

\* utils.Version(v).match(condition); a missing condition matches anything
Match(v, condition) == condition = NoVersion \/ v = condition

\* ------------------------------------------------------------------ cache
\* self._local_modules: a function from the names present to their handle
Pop(c, name) == [k \in DOMAIN c \ {name} |-> c[k]]
Put(c, name, h) == [k \in DOMAIN c \cup {name} |-> IF k = name THEN h ELSE c[k]]

\* a search that drops the cache entry it answers from
search_forgets(c, f, name) ==
    IF name \in DOMAIN c
    THEN [cache |-> Pop(c, name), found |-> {c[name]}]
    ELSE LET module_dir == get_normalized_path(name)
             loaded == Load(f, module_dir)
         IN IF Exists(f, module_dir) /\ loaded # {}
            THEN [cache |-> Put(c, name, CHOOSE h \in loaded : TRUE), found |-> loaded]
            ELSE [cache |-> c, found |-> {}]

\* LocalModuleManager.search: the cache after the call and the handle found
\* (a set, empty for None)
search(c, f, name) ==
    IF name \in DOMAIN c
    THEN [cache |-> c, found |-> {c[name]}]
    ELSE LET module_dir == get_normalized_path(name)
             loaded == Load(f, module_dir)
         IN IF Exists(f, module_dir) /\ loaded # {}
            THEN [cache |-> Put(c, name, CHOOSE h \in loaded : TRUE), found |-> loaded]
            ELSE [cache |-> c, found |-> {}]

\* uninstall that empties the directory and leaves it in place
uninstall_keeps_directory(c, f, name) ==
    IF ~Exists(f, get_normalized_path(name))
    THEN [cache |-> c, fs |-> f, result |-> FALSE]
    ELSE [cache |-> Pop(c, name), fs |-> WriteDir(f, get_normalized_path(name), {}),
          result |-> TRUE]

\* LocalModuleManager.uninstall: cache and filesystem after the call and the
\* value returned
uninstall(c, f, name) ==
    IF ~Exists(f, get_normalized_path(name))
    THEN [cache |-> c, fs |-> f, result |-> FALSE]
    ELSE [cache |-> Pop(c, name), fs |-> rmtree(f, get_normalized_path(name)),
          result |-> TRUE]


\* LocalModuleManager.list, lines 220-222: the cache after the sub-directories
\* in `subdirs` have been loaded and stored under their directory names
list(c, f, subdirs) ==
    [k \in DOMAIN c \cup subdirs |->
        IF k \in subdirs THEN CHOOSE h \in Load(f, Join(home, k)) : TRUE ELSE c[k]]

\* ---------------------------------------------------------------- registry
\* The upstream version table of a name: version -> whether the host meets
\* the version's runtime-A / runtime-B requirements.
TableEntries == [compat : BOOLEAN]
Tables == UNION {[S -> TableEntries] : S \in SUBSET Versions}

Restrict(t, S) == [v \in S |-> t[v]]

Max(S) == CHOOSE v \in S : \A w \in S : w <= v

\* module_server.search_module(name, version, source): the newest version that
\* matches the request and is compatible with the host, with a fetch location
\* of the kind the registry holds for it, as a set (empty when there is none)
search_module(table, name, version) ==
    LET ok == {v \in DOMAIN table : table[v].compat /\ Match(v, version)}
    IN IF ok = {} THEN {}
       ELSE {[kind |-> k, name |-> name, version |-> Max(ok)] : k \in {"url", "source"}}

\* the error of _install_from_name with valid_infos not filtered by version
install_from_name_error_unfiltered(module_infos, version) ==
    IF DOMAIN module_infos = {}
    THEN [status |-> "HubModuleNotFoundError", info |-> Restrict(module_infos, {})]
    ELSE [status |-> "EnvironmentMismatchError", info |-> module_infos]

\* _install_from_name, lines 242-258: the error raised when the search gave
\* no result, with the table it carries
install_from_name_error(module_infos, version) ==
    IF DOMAIN module_infos = {}
    THEN [status |-> "HubModuleNotFoundError", info |-> Restrict(module_infos, {})]
    ELSE LET valid_infos ==
                 IF version # NoVersion
                 THEN Restrict(module_infos,
                               {v \in DOMAIN module_infos : Match(v, version)})
                 ELSE module_infos
         IN IF DOMAIN valid_infos # {}
            THEN [status |-> "EnvironmentMismatchError", info |-> valid_infos]
            ELSE [status |-> "HubModuleNotFoundError", info |-> module_infos]

\* ---------------------------------------------------------------- requests
Opt(S) == {{}} \cup {{x} : x \in S}

\* an archive file or a url: the module packed in it and whether unpacking
\* (downloading) it succeeds
Archives == {[mod |-> [name |-> AB, version |-> 1], ok |-> b] : b \in BOOLEAN}
Urls == {[mod |-> [name |-> CC, version |-> 1], ok |-> b] : b \in BOOLEAN}

NoRequest ==
    [name |-> {}, directory |-> {}, archive |-> {}, url |-> {},
     version |-> NoVersion, source |-> FALSE]

Sources(r) ==
    {k \in {"name", "directory", "archive", "url"} :
        \/ k = "name" /\ r.name # {}
        \/ k = "directory" /\ r.directory # {}
        \/ k = "archive" /\ r.archive # {}
        \/ k = "url" /\ r.url # {}}

\* The install calls made: every call with one source parameter set (version
\* and source accompany name), the call with none, and one call for every
\* combination of two or more source parameters.
Requests ==
    {[NoRequest EXCEPT !.name = {n}, !.version = v, !.source = s] :
        n \in Names, v \in {NoVersion} \cup Versions, s \in BOOLEAN}
    \cup {[NoRequest EXCEPT !.directory = {d}] : d \in UserDirs}
    \cup {[NoRequest EXCEPT !.archive = {a}] : a \in Archives}
    \cup {[NoRequest EXCEPT !.url = {u}] : u \in Urls}
    \cup {r \in [name : {{}, {AB}},
                 directory : {{}, {UserDir([name |-> CC, version |-> 1])}},
                 archive : {{}, {[mod |-> [name |-> AB, version |-> 1], ok |-> TRUE]}},
                 url : {{}, {[mod |-> [name |-> CC, version |-> 1], ok |-> TRUE]}},
                 version : {NoVersion}, source : {FALSE}] :
            Cardinality(Sources(r)) # 1}

\* the branches of install with `directory` tested before `name`
InstallPathDirectoryFirst(r) ==
    IF r.directory # {} THEN "directory"
    ELSE IF r.name # {} THEN "name"
    ELSE IF r.archive # {} THEN "archive"
    ELSE IF r.url # {} THEN "url"
    ELSE "none"

\* install, lines 167-188: the branch a call takes
InstallPath(r) ==
    IF r.name # {} THEN "name"
    ELSE IF r.directory # {} THEN "directory"
    ELSE IF r.archive # {} THEN "archive"
    ELSE IF r.url # {} THEN "url"
    ELSE "none"

\* ------------------------------------------------------- temporary folders
Fresh(k) == [i \in 1..k |-> "x"]

\* utils.generate_tempdir(): a directory under TMP_HOME whose name is in use
\* nowhere
generate_tempdir(f, tmp) ==
    LET free(k) == \A q \in DOMAIN f :
                       /\ ~IsPrefix(Join(tmp, Fresh(k)), q)
                       /\ ~IsPrefix(get_normalized_name(Join(tmp, Fresh(k))), q)
        k == CHOOSE i \in 1..(Cardinality(DOMAIN f) + 1) :
                 free(i) /\ \A j \in 1..(i - 1) : ~free(j)
    IN Join(tmp, Fresh(k))

\* leaving the `with utils.generate_tempdir()` blocks: every directory in
\* tdirs is removed
ReleaseTempdirs(f, tdirs) ==
    [q \in {r \in DOMAIN f : \A i \in DOMAIN tdirs : ~IsPrefix(tdirs[i], r)} |-> f[q]]

\* _install_from_directory, lines 296-297
TempCopyPath(dir, name) == get_normalized_name(Join(dir, name))


\* ------------------------------------------------------------------- state
VARIABLES
    fs,        \* the filesystem: existing directory path -> module files in it
    TMP_HOME,  \* paddlehub.env.TMP_HOME of the host
    cache,     \* per process: self._local_modules
    lock,      \* per name: the process holding filelock.FileLock(TMP_HOME/name)
    pc,        \* per process: the position of its running install call
    fr,        \* per process: the arguments and locals of its running call
    call,      \* per process: its latest call, with the result once returned
    calls      \* the number of calls made so far

vars == <<fs, TMP_HOME, cache, lock, pc, fr, call, calls>>

NoPath == <<>>

IdleFrame ==
    [name |-> {}, version |-> NoVersion, source |-> FALSE, directory |-> NoPath,
     archive |-> {}, url |-> {}, tdirs |-> <<>>, module |-> {}, result |-> {}]

NoTable == Restrict(<<>>, {})

NoCall ==
    [op |-> "none", args |-> NoRequest, via |-> "none", status |-> "none",
     value |-> {}, listing |-> {}, search |-> "none", table |-> NoTable,
     info |-> NoTable, pip |-> <<>>]

\* a module installed by an earlier run of the program
Preinstalled == [name |-> AB, version |-> 1]

Init ==
    /\ TMP_HOME \in TmpHomes
    /\ fs \in {InitialFs,
               WriteDir(InitialFs, get_normalized_path(Preinstalled.name), {Preinstalled})}
    /\ cache = [p \in Procs |-> NoTable]
    /\ lock = [n \in Names |-> "free"]
    /\ pc = [p \in Procs |-> "idle"]
    /\ fr = [p \in Procs |-> IdleFrame]
    /\ call = [p \in Procs |-> NoCall]
    /\ calls = 0

\* a call begins
Begin(p) ==
    /\ pc[p] = "idle"
    /\ calls' = calls + 1
    /\ UNCHANGED TMP_HOME

NewCall(op, r) == [NoCall EXCEPT !.op = op, !.args = r]

\* a return that leaves the lock taken
FinishKeepsLock(p, c, f, result) ==
    /\ pc' = [pc EXCEPT ![p] = "idle"]
    /\ fr' = [fr EXCEPT ![p] = IdleFrame]
    /\ cache' = [cache EXCEPT ![p] = c]
    /\ fs' = ReleaseTempdirs(f, fr[p].tdirs)
    /\ call' = [call EXCEPT ![p] = result]
    /\ UNCHANGED <<TMP_HOME, calls, lock>>

\* the running install call of p returns or raises: the `with` blocks are
\* left, which removes the temporary directories and releases the lock
Finish(p, c, f, result) ==
    /\ pc' = [pc EXCEPT ![p] = "idle"]
    /\ fr' = [fr EXCEPT ![p] = IdleFrame]
    /\ cache' = [cache EXCEPT ![p] = c]
    /\ fs' = ReleaseTempdirs(f, fr[p].tdirs)
    /\ lock' = [n \in Names |-> IF lock[n] = p THEN "free" ELSE lock[n]]
    /\ call' = [call EXCEPT ![p] = result]
    /\ UNCHANGED <<TMP_HOME, calls>>

Raise(p, c, f, error) == Finish(p, c, f, [call[p] EXCEPT !.status = error])

Return(p, c, f, h) ==
    Finish(p, c, f, [call[p] EXCEPT !.status = "handle", !.value = {h}])

\* the running install call of p goes on at `to` with frame `frame`
Goto(p, to, frame, c, f) ==
    /\ pc' = [pc EXCEPT ![p] = to]
    /\ fr' = [fr EXCEPT ![p] = frame]
    /\ cache' = [cache EXCEPT ![p] = c]
    /\ fs' = f
    /\ UNCHANGED <<TMP_HOME, lock, call, calls>>

\* ------------------------------------------------- search, list, uninstall
Search(p, name) ==
    /\ Begin(p)
    /\ LET s == search(cache[p], fs, name)
       IN /\ cache' = [cache EXCEPT ![p] = s.cache]
          /\ call' = [call EXCEPT ![p] =
                 [NewCall("search", [NoRequest EXCEPT !.name = {name}]) EXCEPT
                     !.status = IF s.found = {} THEN "None" ELSE "handle",
                     !.value = s.found]]
    /\ UNCHANGED <<fs, lock, pc, fr>>

\* list(): HubModule.load raises on a sub-directory that does not load; the
\* sub-directories listed before it are in the cache by then
List(p) ==
    /\ Begin(p)
    /\ LET subdirs == listdir(fs)
           bad == {d \in subdirs : Load(fs, Join(home, d)) = {}}
       IN \/ /\ bad = {}
             /\ cache' = [cache EXCEPT ![p] = list(cache[p], fs, subdirs)]
             /\ call' = [call EXCEPT ![p] =
                    [NewCall("list", NoRequest) EXCEPT
                        !.status = "list",
                        !.listing = {<<k, cache'[p][k]>> : k \in DOMAIN cache'[p]}]]
          \/ /\ bad # {}
             /\ \E done \in SUBSET (subdirs \ bad) :
                    cache' = [cache EXCEPT ![p] = list(cache[p], fs, done)]
             /\ call' = [call EXCEPT ![p] =
                    [NewCall("list", NoRequest) EXCEPT !.status = "LoadError"]]
    /\ UNCHANGED <<fs, lock, pc, fr>>

Uninstall(p, name) ==
    /\ Begin(p)
    /\ LET u == uninstall(cache[p], fs, name)
       IN /\ cache' = [cache EXCEPT ![p] = u.cache]
          /\ fs' = u.fs
          /\ call' = [call EXCEPT ![p] =
                 [NewCall("uninstall", [NoRequest EXCEPT !.name = {name}]) EXCEPT
                     !.status = IF u.result THEN "True" ELSE "False"]]
    /\ UNCHANGED <<lock, pc, fr>>

\* LocalModuleManager(home) asked for again in process p: __new__ finds the
\* home in _instance_map and returns the manager p already has; Python then
\* runs __init__ on the returned object, which assigns a new, empty
\* OrderedDict to self._local_modules
Construct(p) ==
    /\ Begin(p)
    /\ cache' = [cache EXCEPT ![p] = NoTable]
    /\ call' = [call EXCEPT ![p] = NewCall("construct", NoRequest)]
    /\ UNCHANGED <<fs, lock, pc, fr>>


\* ----------------------------------------------------------------- install
\* install(name, directory, archive, url, version, source), lines 167-188
Install(p, r) ==
    /\ Begin(p)
    /\ LET via == InstallPath(r)
           c == [NewCall("install", r) EXCEPT !.via = via]
           frame == [IdleFrame EXCEPT
                        !.name = IF via = "name" THEN r.name ELSE {},
                        !.version = IF via = "name" THEN r.version ELSE NoVersion,
                        !.source = IF via = "name" THEN r.source ELSE FALSE,
                        !.directory = IF via = "directory"
                                      THEN CHOOSE d \in r.directory : TRUE ELSE NoPath,
                        !.archive = IF via = "archive" THEN r.archive ELSE {},
                        !.url = IF via = "url" THEN r.url ELSE {}]
       IN IF via = "none"
          THEN /\ call' = [call EXCEPT ![p] = [c EXCEPT !.status = "RuntimeError"]]
               /\ UNCHANGED <<pc, fr>>
          ELSE /\ call' = [call EXCEPT ![p] = c]
               /\ fr' = [fr EXCEPT ![p] = frame]
               /\ pc' = [pc EXCEPT ![p] = IF via = "name" THEN "lock" ELSE via]
    /\ UNCHANGED <<fs, cache, lock>>

\* a lock that is never found taken
LockAlwaysFree(l, name) == TRUE

\* filelock.FileLock(os.path.join(TMP_HOME, name)) can be taken
LockFree(l, name) == l[name] = "free"

\* `with lock:`, line 169: blocks until the lock of the name is free
AcquireLock(p) ==
    /\ pc[p] = "lock"
    /\ \E name \in fr[p].name :
           /\ LockFree(lock, name)
           /\ lock' = [lock EXCEPT ![name] = p]
    /\ pc' = [pc EXCEPT ![p] = "name"]
    /\ UNCHANGED <<fs, TMP_HOME, cache, fr, call, calls>>

\* install, lines 170-179: the installed module that satisfies the request
\* (a set, empty when the install has to go on)
Satisfied(found, version) == {h \in found : Match(h.version, version)}

\* install, lines 170-180, and _install_from_name, lines 236-262, under the
\* lock: return the installed module, or ask the registry and raise or go on
\* with the url or the source it names
InstallFromName(p) ==
    /\ pc[p] = "name"
    /\ \E name \in fr[p].name :
        LET s == search(cache[p], fs, name)
            version == fr[p].version
            hit == Satisfied(s.found, version)
            cached == IF name \in DOMAIN s.cache
                      THEN Satisfied({s.cache[name]}, version) ELSE {}
        IN IF hit # {}
           THEN Return(p, s.cache, fs, CHOOSE h \in hit : TRUE)
           ELSE IF cached # {}
           THEN Return(p, s.cache, fs, CHOOSE h \in cached : TRUE)
           ELSE \E table \in Tables :
               LET result == search_module(table, name, version)
                   asked == [call[p] EXCEPT
                                !.table = IF result = {} THEN table ELSE NoTable,
                                !.search = IF result = {} THEN "absent" ELSE "found"]
               IN IF result = {}
                  THEN LET e == install_from_name_error(table, version)
                       IN Finish(p, s.cache, fs,
                                 [asked EXCEPT !.status = e.status, !.info = e.info])
                  ELSE \E res \in result, ok \in BOOLEAN :
                       /\ pc' = [pc EXCEPT ![p] =
                              IF fr[p].source \/ res.kind = "source"
                              THEN "source" ELSE "url"]
                       /\ fr' = [fr EXCEPT ![p].result = {res},
                                    ![p].url =
                                        {[mod |-> [name |-> name, version |-> res.version],
                                          ok |-> ok]}]
                       /\ cache' = [cache EXCEPT ![p] = s.cache]
                       /\ call' = [call EXCEPT ![p] = asked]
                       /\ UNCHANGED <<fs, TMP_HOME, lock, calls>>

\* _install_from_url, lines 227-232: download into a temporary directory
InstallFromUrl(p) ==
    /\ pc[p] = "url"
    /\ \E url \in fr[p].url :
        LET tdir == generate_tempdir(fs, TMP_HOME)
        IN IF ~url.ok
           THEN Raise(p, cache[p], fs, "DownloadError")
           ELSE Goto(p, "archive",
                     [fr[p] EXCEPT !.tdirs = Append(@, tdir),
                                   !.archive = {[mod |-> url.mod, ok |-> TRUE]}],
                     cache[p], WriteDir(fs, tdir, {url.mod}))

\* _install_from_archive, lines 326-332: unpack into a temporary directory and
\* go on with the top-level directory of the archive
InstallFromArchive(p) ==
    /\ pc[p] = "archive"
    /\ \E archive \in fr[p].archive :
        LET tdir == generate_tempdir(fs, TMP_HOME)
            path == archive.mod.name
        IN IF ~archive.ok
           THEN Raise(p, cache[p], fs, "ArchiveError")
           ELSE Goto(p, "directory",
                     [fr[p] EXCEPT !.tdirs = Append(@, tdir),
                                   !.directory = Join(tdir, path)],
                     cache[p],
                     WriteDir(WriteDir(fs, tdir, {}), Join(tdir, path), {archive.mod}))

\* _install_from_directory, lines 288-301: copy the directory into a
\* temporary directory named after the module and load the copy
InstallFromDirectory(p) ==
    /\ pc[p] = "directory"
    /\ LET directory == fr[p].directory
           module_info == Load(fs, directory)
       IN IF module_info = {}
          THEN Raise(p, cache[p], fs, "LoadError")
          ELSE \E info \in module_info, dir \in {generate_tempdir(fs, TMP_HOME)} :
               \E f1 \in {WriteDir(fs, dir, {})}, tempdir \in {TempCopyPath(dir, info.name)} :
               \E f2 \in {WriteDir(f1, tempdir, fs[directory])} :
                  IF Exists(f1, tempdir)
                  THEN Raise(p, cache[p], ReleaseTempdirs(f1, <<dir>>), "FileExistsError")
                  ELSE Goto(p, "replace",
                            [fr[p] EXCEPT !.tdirs = Append(@, dir),
                                          !.directory = tempdir,
                                          !.module = Load(f2, tempdir)],
                            cache[p], f2)

\* an install that goes on to the copy without uninstalling
UninstallLocalSkipped(p) ==
    /\ pc[p] = "replace"
    /\ Goto(p, "copy", fr[p], cache[p], fs)

\* _install_from_directory, lines 304-305: uninstall the installed module
UninstallLocal(p) ==
    /\ pc[p] = "replace"
    /\ \E hub_module_cls \in fr[p].module :
        LET s == search(cache[p], fs, hub_module_cls.name)
            u == uninstall(s.cache, fs, hub_module_cls.name)
        IN IF s.found # {}
           THEN Goto(p, "copy", fr[p], u.cache, u.fs)
           ELSE Goto(p, "copy", fr[p], s.cache, fs)

\* shutil.copytree, line 307, first part: the destination is created; it must
\* not exist
CopyBegin(p) ==
    /\ pc[p] = "copy"
    /\ \E hub_module_cls \in fr[p].module :
        LET dst == get_normalized_path(hub_module_cls.name)
        IN IF Exists(fs, dst)
           THEN Raise(p, cache[p], fs, "FileExistsError")
           ELSE Goto(p, "copying", fr[p], cache[p], WriteDir(fs, dst, {}))

\* shutil.copytree, line 307, second part: the files are written, unless the
\* copy fails
CopyEnd(p) ==
    /\ pc[p] = "copying"
    /\ \E hub_module_cls \in fr[p].module :
        LET dst == get_normalized_path(hub_module_cls.name)
        IN \/ /\ Exists(fs, dst)
              /\ Goto(p, "reload", fr[p], cache[p],
                      WriteDir(fs, dst, fs[dst] \cup fs[fr[p].directory]))
           \/ Raise(p, cache[p], fs, "OSError")

\* the handle _install_from_directory stores and returns, lines 310-311
Installed(f, hub_module_cls) == Load(f, get_normalized_path(hub_module_cls.name))

\* hub_module_cls.get_py_requirements(): the packages the module declares
\* (version 2 of c declares two, the other modules none)
get_py_requirements(h) ==
    IF h.name = CC /\ h.version = 2 THEN <<"r", "s">> ELSE <<>>

\* a requirements loop that stops at the first package that fails
install_requirements_until_failure(reqs, ok) ==
    LET failing == {i \in 1..Len(reqs) : ~ok[i]}
        last == IF failing = {} THEN Len(reqs)
                ELSE CHOOSE i \in failing : \A j \in failing : i <= j
    IN [i \in 1..last |-> [req |-> reqs[i], ok |-> ok[i]]]

\* _install_from_directory, lines 313-319: pypi.install is called for every
\* requirement in turn, ok[i] being what it returns for the i-th; the calls
\* made, with their results
install_requirements(reqs, ok) ==
    [i \in 1..Len(reqs) |-> [req |-> reqs[i], ok |-> ok[i]]]

\* _install_from_directory, lines 310-322: reload from the home directory,
\* store the handle, install the requirements, return
Register(p) ==
    /\ pc[p] = "reload"
    /\ \E hub_module_cls \in fr[p].module :
        LET loaded == Installed(fs, hub_module_cls)
        IN IF loaded = {}
           THEN Raise(p, cache[p], fs, "LoadError")
           ELSE \E h \in loaded :
                \E ok \in [1..Len(get_py_requirements(h)) -> BOOLEAN] :
                    Finish(p, Put(cache[p], h.name, h), fs,
                           [call[p] EXCEPT
                               !.status = "handle",
                               !.value = {h},
                               !.pip = install_requirements(get_py_requirements(h), ok)])


\* _install_from_source, lines 266-271: read the source descriptor (a registry
\* result that names a url has no 'class' and no 'path') and uninstall the
\* installed module
InstallFromSource(p) ==
    /\ pc[p] = "source"
    /\ \E source \in fr[p].result :
        LET name == source.name
            s == search(cache[p], fs, name)
            u == uninstall(s.cache, fs, name)
        IN IF source.kind # "source"
           THEN Raise(p, cache[p], fs, "KeyError")
           ELSE IF s.found # {}
           THEN Goto(p, "makedirs", fr[p], u.cache, u.fs)
           ELSE Goto(p, "makedirs", fr[p], s.cache, fs)

\* os.makedirs, line 273: the directory must not exist
SourceMakedirs(p) ==
    /\ pc[p] = "makedirs"
    /\ \E source \in fr[p].result :
        LET dst == get_normalized_path(source.name)
        IN IF Exists(fs, dst)
           THEN Raise(p, cache[p], fs, "FileExistsError")
           ELSE Goto(p, "stub", fr[p], cache[p], WriteDir(fs, dst, {}))

\* lines 274-281: module.py, the stub that imports the class, is written
SourceWrite(p) ==
    /\ pc[p] = "stub"
    /\ \E source \in fr[p].result :
        LET dst == get_normalized_path(source.name)
            stub == [name |-> source.name, version |-> source.version]
        IN IF ~Exists(fs, dst)
           THEN Raise(p, cache[p], fs, "OSError")
           ELSE Goto(p, "load", fr[p], cache[p], WriteDir(fs, dst, fs[dst] \cup {stub}))

\* lines 283-284: load the stub, store and return the handle
SourceLoad(p) ==
    /\ pc[p] = "load"
    /\ \E source \in fr[p].result :
        LET loaded == Load(fs, get_normalized_path(source.name))
        IN IF loaded = {}
           THEN Raise(p, cache[p], fs, "LoadError")
           ELSE \E h \in loaded : Return(p, Put(cache[p], source.name, h), fs, h)

\* ------------------------------------------------------------ specification
\* the steps of a running install call
Step(p) ==
    \/ AcquireLock(p)
    \/ InstallFromName(p)
    \/ InstallFromUrl(p)
    \/ InstallFromArchive(p)
    \/ InstallFromDirectory(p)
    \/ UninstallLocal(p)
    \/ CopyBegin(p)
    \/ CopyEnd(p)
    \/ Register(p)
    \/ InstallFromSource(p)
    \/ SourceMakedirs(p)
    \/ SourceWrite(p)
    \/ SourceLoad(p)

ByName == {r \in Requests : Sources(r) = {"name"}}

\* one manager, every call
Next ==
    \/ /\ calls < MaxCalls
       /\ \/ \E name \in Names : Search("p1", name)
          \/ List("p1")
          \/ \E name \in Names : Uninstall("p1", name)
          \/ \E r \in Requests : Install("p1", r)
    \/ Step("p1")

Spec == Init /\ [][Next]_vars

\* two managers on one home directory: probes and uninstalls
NextProbe ==
    \E p \in Procs :
        /\ calls < MaxCalls + 1
        /\ \/ \E name \in Names : Search(p, name)
           \/ List(p)
           \/ \E name \in Names : Uninstall(p, name)

SpecProbe == Init /\ [][NextProbe]_vars

\* two managers on one home directory: one installs a-b from the caller's
\* directories, the other searches a-b and installs it by name
DirectoryStep(p) ==
    \/ InstallFromDirectory(p)
    \/ UninstallLocal(p)
    \/ CopyBegin(p)
    \/ CopyEnd(p)
    \/ Register(p)

NextStale ==
    \/ /\ calls < MaxCalls + 1
       /\ \/ \E v \in Versions :
                 Install("p1", [NoRequest EXCEPT
                                   !.directory = {UserDir([name |-> AB, version |-> v])}])
          \/ Search("p2", AB)
          \/ \E v \in Versions \cup {NoVersion} :
                 Install("p2", [NoRequest EXCEPT !.name = {AB}, !.version = v])
    \/ DirectoryStep("p1")
    \/ Step("p2")

SpecStale == Init /\ [][NextStale]_vars

\* two managers installing by name, a-b and c
NextByName ==
    \E p \in Procs :
        \/ /\ calls < MaxCalls
           /\ \E r \in {q \in ByName : q.name \subseteq {AB, CC} /\ ~q.source /\ q.version # 1} :
                  Install(p, r)
        \/ Step(p)

\* the temporary directory plays no part in the locking: one TMP_HOME
InitByName == Init /\ TMP_HOME = <<"t">>

SpecByName == InitByName /\ [][NextByName]_vars

\* two processes that search, list, uninstall and ask for their manager again
NextSingleton ==
    \E p \in Procs :
        /\ calls < MaxCalls + 1
        /\ \/ \E name \in Names : Search(p, name)
           \/ List(p)
           \/ \E name \in Names : Uninstall(p, name)
           \/ Construct(p)

SpecSingleton == Init /\ [][NextSingleton]_vars

\* two managers installing by name: one a-b, the other a_b
NextAlias ==
    \/ /\ calls < MaxCalls
       /\ \/ \E v \in {NoVersion, 2} :
                 Install("p1", [NoRequest EXCEPT !.name = {AB}, !.version = v])
          \/ \E v \in {NoVersion, 2} :
                 Install("p2", [NoRequest EXCEPT !.name = {A_B}, !.version = v])
    \/ \E p \in Procs : Step(p)

SpecAlias == InitByName /\ [][NextAlias]_vars

\* two managers installing a-b by name; every running call goes on: the
\* download, the extraction, the registry and the loader return, and a call
\* waiting for a lock that stays free gets it
NextLock ==
    \/ /\ calls < MaxCalls
       /\ \E p \in Procs, v \in {NoVersion, 2} :
              Install(p, [NoRequest EXCEPT !.name = {AB}, !.version = v])
    \/ \E p \in Procs : Step(p)

SpecLock ==
    /\ InitByName
    /\ [][NextLock]_vars
    /\ \A p \in Procs : WF_vars(Step(p))


\* ------------------------------------------------------------------ claims

\* the first source parameter set, in the order name, directory, archive, url
FirstSource(S) ==
    IF "name" \in S THEN "name"
    ELSE IF "directory" \in S THEN "directory"
    ELSE IF "archive" \in S THEN "archive"
    ELSE "url"

C3_ErrorByTable ==
    \A p \in Procs :
        (call[p].op = "install" /\ call[p].search = "absent") =>
            LET t == call[p].table
                matching == {v \in DOMAIN t : Match(v, call[p].args.version)}
            IN /\ DOMAIN t = {} =>
                      /\ call[p].status = "HubModuleNotFoundError"
                      /\ DOMAIN call[p].info = {}
               /\ (matching # {} /\ \A v \in matching : ~t[v].compat) =>
                      /\ call[p].status = "EnvironmentMismatchError"
                      /\ call[p].info = Restrict(t, matching)
               /\ (DOMAIN t # {} /\ matching = {}) =>
                      /\ call[p].status = "HubModuleNotFoundError"
                      /\ call[p].info = t
               /\ call[p].status \in {"HubModuleNotFoundError", "EnvironmentMismatchError"}

\* C3 witness: an install of a version failed with EnvironmentMismatch and the
\* error carries some but not all upstream versions.
C3_Witness ==
    \E p \in Procs :
        /\ call[p].search = "absent"
        /\ call[p].status = "EnvironmentMismatchError"
        /\ DOMAIN call[p].info # {}
        /\ DOMAIN call[p].info # DOMAIN call[p].table

\* C5: uninstall(name) returns False and changes neither the filesystem nor
\* the cache when home/Normalize(name) does not exist; it returns True when it
\* exists; either way the directory does not exist afterwards, so that a
\* second uninstall right after returns False.
C5_Uninstall ==
    [][\A p \in Procs, name \in Names :
          Uninstall(p, name) =>
              /\ ~Exists(fs', get_normalized_path(name))
              /\ IF Exists(fs, get_normalized_path(name))
                 THEN call'[p].status = "True"
                 ELSE /\ call'[p].status = "False"
                      /\ fs' = fs
                      /\ cache' = cache]_vars

\* C5 witness: an uninstall of an installed module has returned True and the
\* directory is gone.
C5_Witness ==
    \E p \in Procs, name \in Names :
        /\ call[p].op = "uninstall"
        /\ call[p].args.name = {name}
        /\ call[p].status = "True"
        /\ ~Exists(fs, get_normalized_path(name))


\* the module n is installed with a version that satisfies the condition
InstalledSatisfying(f, name, condition) ==
    {h \in Load(f, get_normalized_path(name)) :
        h.name = name /\ Match(h.version, condition)}

\* C2, as claimed: when install(name=n, version=c) runs while a module n is
\* installed whose version satisfies c (or c is absent), the call returns the
\* existing handle without a registry query, a download or an extraction and
\* leaves the filesystem as it is.
C2_AlreadySatisfied ==
    [][\A p \in Procs, name \in Names :
          (/\ pc[p] = "name"
           /\ pc'[p] # "name"
           /\ fr[p].name = {name}
           /\ InstalledSatisfying(fs, name, fr[p].version) # {})
          => /\ pc'[p] = "idle"
             /\ call'[p].status = "handle"
             /\ call'[p].value = InstalledSatisfying(fs, name, fr[p].version)
             /\ call'[p].search = "none"
             /\ fs' = fs]_vars

\* C4, as claimed: search(name) returns a handle, and install(name=...)
\* returns early as already installed, only if home/Normalize(name) exists and
\* loads at that moment.
C4_HandleOnlyIfOnDisk ==
    [][\A p \in Procs, name \in Names :
          /\ (Search(p, name) /\ call'[p].status = "handle")
                 => Load(fs, get_normalized_path(name)) # {}
          /\ (/\ pc[p] = "name"
              /\ fr[p].name = {name}
              /\ pc'[p] = "idle"
              /\ call'[p].status = "handle"
              /\ call'[p].search = "none")
                 => Load(fs, get_normalized_path(name)) # {}]_vars

\* the handles list() returned for the home sub-directory d
Listed(listing, d) == {e \in listing : e[2].path = Join(home, d)}

\* C6, as claimed: whatever the cache held, list() returns exactly one handle
\* for each module directory in the home directory and no handle of anything
\* else.
C6_ListIsDisk ==
    [][\A p \in Procs :
          (List(p) /\ \A d \in listdir(fs) : Load(fs, Join(home, d)) # {})
          => /\ call'[p].status = "list"
             /\ \A d \in listdir(fs) : Cardinality(Listed(call'[p].listing, d)) = 1
             /\ \A e \in call'[p].listing :
                    \E d \in listdir(fs) : e \in Listed(call'[p].listing, d)]_vars

\* C7, as claimed: a home sub-directory that fails to load never fails a
\* probe: search(name) returns None and list() returns the modules that load,
\* neither raises and neither adds a cache entry for the directory.
C7_ProbeNeverFails ==
    [][\A p \in Procs :
          /\ \A name \in Names :
                 (/\ Search(p, name)
                  /\ name \notin DOMAIN cache[p]
                  /\ Exists(fs, get_normalized_path(name))
                  /\ Load(fs, get_normalized_path(name)) = {})
                 => (call'[p].status = "None" /\ cache'[p] = cache[p])
          /\ (List(p) /\ \E d \in listdir(fs) : Load(fs, Join(home, d)) = {})
                 => /\ call'[p].status = "list"
                    /\ \A d \in listdir(fs) :
                           IF Load(fs, Join(home, d)) = {}
                           THEN d \in DOMAIN cache'[p] => d \in DOMAIN cache[p]
                           ELSE Load(fs, Join(home, d)) \subseteq
                                    {e[2] : e \in call'[p].listing}]_vars

\* p is between the "already satisfied" check of install(name=n) and its return
InInstallByName(p, name) ==
    /\ call[p].via = "name"
    /\ fr[p].name = {name}
    /\ pc[p] \notin {"idle", "lock"}

\* C8: for every name, at most one ByName install is between the "already
\* satisfied" check and its return, and it holds the lock of the name all the
\* way.
C8_OneInstallPerName ==
    \A name \in Names :
        /\ Cardinality({p \in Procs : InInstallByName(p, name)}) <= 1
        /\ \A p \in Procs : InInstallByName(p, name) => lock[name] = p

\* C8 witness: one install of a name is writing the home directory while
\* another install of the same name waits for the lock.
C8_Witness ==
    \E p, q \in Procs, name \in Names :
        /\ InInstallByName(p, name)
        /\ pc[p] \in {"copying", "stub"}
        /\ pc[q] = "lock"
        /\ fr[q].name = {name}

\* C9, as claimed: after a successful install of a module with declared name
\* n, search(n) returns the handle install returned, the handle's path is
\* home/Normalize(n), and no other handle of n (of a version installed
\* before) is returned by search or by list any more.
C9_Supersedes ==
    [][\A p \in Procs :
          (pc[p] \in {"reload", "load"} /\ pc'[p] = "idle" /\ call'[p].status = "handle")
          => \A h \in call'[p].value :
                 /\ search(cache'[p], fs', h.name).found = {h}
                 /\ h.path = get_normalized_path(h.name)
                 /\ \A k \in Names :
                        \A old \in search(cache'[p], fs', k).found :
                            old.name = h.name => old = h
                 /\ LET l == list(cache'[p], fs', listdir(fs'))
                    IN \A k \in DOMAIN l : l[k].name = h.name => l[k] = h]_vars

\* the directories the step wrote: created, or holding other files than before
Written(f, g) == {q \in DOMAIN g : q \notin DOMAIN f \/ g[q] # f[q]}

\* C10, as claimed: install(directory=D) leaves D as it is, on success and on
\* failure: every write goes to a scoped temporary directory of the call or to
\* the home directory of the module.
C10_WritesOnlyTempAndHome ==
    [][\A p \in Procs :
          (call[p].op = "install" /\ call[p].via = "directory" /\ pc'[p] # pc[p])
          => /\ \A d \in UserDirs : Exists(fs', d) /\ fs'[d] = fs[d]
             /\ \A q \in Written(fs, fs') :
                    \/ \E i \in DOMAIN fr'[p].tdirs : IsPrefix(fr'[p].tdirs[i], q)
                    \/ \E h \in fr[p].module : q = get_normalized_path(h.name)]_vars

\* C11, as claimed: asking for the manager of the same home again gives the
\* same manager with the cache it had: every handle cached before the request
\* is still cached after it and search returns it without loading it again.
C11_SameManagerSameCache ==
    [][\A p \in Procs :
          Construct(p) =>
              \A name \in DOMAIN cache[p] :
                  /\ name \in DOMAIN cache'[p]
                  /\ search(cache'[p], fs', name).found = {cache[p][name]}]_vars

\* the home sub-directory the running install of p replaces
Target(p) ==
    {get_normalized_path(h.name) : h \in fr[p].module}
    \cup {get_normalized_path(source.name) : source \in fr[p].result}

\* the ByName install of p has passed the removal of the installed module and
\* has not finished writing the new one
InReplacePhase(p) ==
    /\ call[p].via = "name"
    /\ \/ pc[p] \in {"copy", "copying"}
       \/ pc[p] \in {"makedirs", "stub"} /\ fr[p].module = {}

\* C12, as claimed: no two ByName installs are at the same time in the phase
\* that removes or writes the same home sub-directory, whatever the names
\* they were asked for.
C12_OneWriterPerDirectory ==
    \A p, q \in Procs :
        (p # q /\ InReplacePhase(p) /\ InReplacePhase(q))
            => Target(p) \cap Target(q) = {}

\* C13: in a sequential install that replaces an installed module, on the
\* directory path and on the source path, the step that uninstalls leaves no
\* home/Normalize(name) directory when a module was installed there; a file is
\* written to the directory only while it is empty; and the directory never
\* holds the files of more than one version.
C13_RemovedBeforeWritten ==
    [][\A p \in Procs : \A d \in Target(p) :
          /\ (\/ pc[p] = "replace" /\ pc'[p] = "copy"
              \/ pc[p] = "source" /\ pc'[p] = "makedirs")
                 => (Load(fs, d) # {} => ~Exists(fs', d))
          /\ (Exists(fs', d) /\ fs'[d] # {} /\ (Exists(fs, d) => fs'[d] # fs[d]))
                 => (Exists(fs, d) /\ fs[d] = {})
          /\ Exists(fs', d) => Cardinality(fs'[d]) <= 1]_vars

\* C13 witness: version 1 of a-b was loaded from home/a_b (its handle is still
\* cached under a_b), an install has replaced it, and home/a_b holds the
\* files of version 2 only.
C13_Witness ==
    \E p \in Procs :
        /\ call[p].op = "install"
        /\ call[p].status = "handle"
        /\ A_B \in DOMAIN cache[p]
        /\ cache[p][A_B].version = 1
        /\ fs[get_normalized_path(AB)] = {[name |-> AB, version |-> 2]}

\* C14, as claimed: replacement is atomic: whenever an install runs while
\* home/Normalize(name) holds a complete module, every step of the install,
\* the failing ones included, leaves a complete module there - the one
\* installed before or the new one - never no directory or a partial one.
C14_AtomicReplacement ==
    [][\A p \in Procs : \A d \in Target(p) :
          (call[p].op = "install" /\ pc[p] # "idle" /\ Load(fs, d) # {})
              => Load(fs', d) # {}]_vars

\* C15, as claimed: a home sub-directory that exists and does not load is
\* treated as absent: the install that targets it goes on to write the new
\* module as it does when there is no directory.
C15_UnloadableIsAbsent ==
    [][\A p \in Procs : \A d \in Target(p) :
          (/\ pc[p] \in {"copy", "makedirs"}
           /\ pc'[p] # pc[p]
           /\ Exists(fs, d)
           /\ Load(fs, d) = {})
          => /\ pc'[p] \in {"copying", "stub"}
             /\ call'[p].status # "FileExistsError"]_vars

\* C16, as claimed: when no install is running, nothing an install wrote
\* outside the home directory exists any more: every temporary directory and
\* every copy made on the way is gone, whatever TMP_HOME is.
C16_NothingLeftBehind ==
    (\A p \in Procs : pc[p] = "idle")
        => \A q \in DOMAIN fs : IsPrefix(home, q) \/ q \in UserDirs

\* C17, as claimed: in a ByName install a registry result that is a direct
\* url is installed on the url path, and the stub path is taken only for a
\* result that is a source descriptor, whatever the version and source
\* parameters of the request.
C17_RouteByResult ==
    [][\A p \in Procs :
          (pc[p] = "name" /\ pc'[p] \in {"url", "source"})
          => \A res \in fr'[p].result :
                 /\ res.kind = "url" => pc'[p] = "url"
                 /\ pc'[p] = "source" => res.kind = "source"]_vars

\* C18: whichever of the module's declared requirements fail to install, the
\* install completes: the package installer is called once for each declared
\* requirement, in order, the module is registered and its handle returned.
C18_RequirementsBestEffort ==
    [][\A p \in Procs : \A hub_module_cls \in fr[p].module :
          (pc[p] = "reload" /\ pc'[p] = "idle" /\ Installed(fs, hub_module_cls) # {})
          => \A h \in Installed(fs, hub_module_cls) :
                 LET reqs == get_py_requirements(h)
                 IN /\ call'[p].status = "handle"
                    /\ call'[p].value = {h}
                    /\ h.name \in DOMAIN cache'[p]
                    /\ cache'[p][h.name] = h
                    /\ Len(call'[p].pip) = Len(reqs)
                    /\ \A i \in 1..Len(reqs) : call'[p].pip[i].req = reqs[i]]_vars

\* C18 witness: an install has returned the handle of a module whose first
\* requirement failed to install and whose second one was installed.
C18_Witness ==
    \E p \in Procs :
        /\ call[p].op = "install"
        /\ call[p].status = "handle"
        /\ Len(call[p].pip) = 2
        /\ ~call[p].pip[1].ok
        /\ call[p].pip[2].ok
        /\ \A h \in call[p].value : cache[p][h.name] = h

\* C19: a ByName install that fails with ModuleNotFound or
\* EnvironmentMismatch changes no directory and removes or changes no cache
\* entry: a module installed under the name is still on disk, and search
\* returns after the failure the handle it returned before.
C19_FailedInstallKeepsState ==
    [][\A p \in Procs, name \in Names :
          (/\ pc[p] = "name"
           /\ fr[p].name = {name}
           /\ pc'[p] = "idle"
           /\ call'[p].status \in {"HubModuleNotFoundError", "EnvironmentMismatchError"})
          => /\ fs' = fs
             /\ \A k \in DOMAIN cache[p] :
                    k \in DOMAIN cache'[p] /\ cache'[p][k] = cache[p][k]
             /\ search(cache'[p], fs', name).found = search(cache[p], fs, name).found
             /\ Load(fs, get_normalized_path(name)) # {}
                    => search(cache'[p], fs', name).found # {}]_vars

\* C19 witness: install(name='a-b', version=2) has failed while version 1 is
\* installed: version 1 is on disk and in the cache.
C19_Witness ==
    \E p \in Procs :
        /\ call[p].op = "install"
        /\ call[p].args.name = {AB}
        /\ call[p].args.version = 2
        /\ call[p].status \in {"HubModuleNotFoundError", "EnvironmentMismatchError"}
        /\ \E h \in Load(fs, get_normalized_path(AB)) : h.version = 1
        /\ AB \in DOMAIN cache[p]
        /\ cache[p][AB].version = 1

\* C20: the lock of a ByName install is released on every way out of the
\* call - no process that is not inside a ByName install holds a lock - so an
\* install waiting for the lock gets it in the end, and every install call
\* returns or fails in the end.
C20_LockReleased ==
    /\ [](\A p \in Procs, name \in Names :
              lock[name] = p => pc[p] \notin {"idle", "lock"})
    /\ \A p \in Procs : (pc[p] = "lock") ~> (pc[p] = "name")
    /\ \A p \in Procs : (pc[p] # "idle") ~> (pc[p] = "idle")

\* C20 witness: a ByName install of a-b has failed, and the other process,
\* whose install of a-b is the second call, holds the lock of a-b.
C20_Witness ==
    \E p, q \in Procs :
        /\ p # q
        /\ call[p].op = "install"
        /\ call[p].via = "name"
        /\ pc[p] = "idle"
        /\ call[p].status \notin {"none", "handle"}
        /\ lock[AB] = q
        /\ pc[q] = "name"

====
